---------------------------- MODULE Spec2Model ----------------------------
(***************************************************************************)
(* Model of the C++ glue layer of reaper-rs (src/main/low/src).            *)
(*                                                                         *)
(* The layer has two halves.  "C++ -> Rust": classes CppToRustXxx that     *)
(* implement a REAPER interface by forwarding every virtual method to a    *)
(* free function cpp_to_rust_<Interface>_<Method>(callback_target_, ...)   *)
(* implemented in Rust, plus create_cpp_to_rust_xxx / delete_xxx.          *)
(* "Rust -> C++": free functions rust_to_cpp_<Interface>_<Method>(self,    *)
(* ...) and the MIDI_eventlist, midi_Input, midi_Output,                   *)
(* IReaperPitchShift and REAPER_Resample_Interface accessors, each of      *)
(* which performs one virtual call on self.                                *)
(*                                                                         *)
(* State: the C++ heap objects the layer creates or is handed, the Rust    *)
(* boxes (foreign handles) that are still owned by Rust, and a record of   *)
(* the last operation with every call that crossed a boundary during it.   *)
(*                                                                         *)
(* Three more parts of the process are modelled, each with a               *)
(* specification of its own: the call frames of the threads that run the   *)
(* method bodies statement by statement (ThreadSpec), the function-local   *)
(* static control surfaces of src/main/src/low_level (SurfaceSpec), and    *)
(* the global SWELL function pointers of swell-modstub-generic-custom.cpp  *)
(* (SwellSpec).                                                            *)
(***************************************************************************)
EXTENDS Integers, Sequences, FiniteSets, TLC

VARIABLES heap, boxes, aborted, last, frames, statics, api_tab

vars == <<heap, boxes, aborted, last, frames, statics, api_tab>>

\* The state that the create, delete, adapter and accessor functions of
\* src/main/low/src never touch.
OutsideGlue == <<frames, statics, api_tab>>

-----------------------------------------------------------------------------
(* Bounds of the model.                                                    *)

\* Number of heap objects (allocations) a run may make.
MaxObjects == 2

ObjIds == 1..MaxObjects

\* The Rust boxes a callback_target may point to.
Handles == {"H1", "H2"}

NoHandle == "null"

\* Plain argument values: an argument vector of length n is v, v+1, ...,
\* so that every position carries a different value.
ArgSeeds == {10, 20}

ArgVectors(n) == { [i \in 1..n |-> v + i - 1] : v \in ArgSeeds }

\* Values a non-void callee may return.
RetVals == {0, 1}

\* Capacities the caller of GetLine / GetOutputInfoString may pass as
\* buflen, and lengths (in bytes, terminator included) of the text the
\* callee has to deliver.
Capacities == {0, 4}

TextLens == {1, 4, 10}

\* Text is a sequence of one-character strings.
Fmt_d_s == <<"%", "d", "-", "%", "s">>

Text_ab == <<"a", "b">>

\* Argument lists of the variadic AddLine(fmt, ...): the format, then the
\* variadic arguments.
AddLineInputs == { <<Fmt_d_s, 3, Text_ab>>, <<Text_ab>> }

-----------------------------------------------------------------------------
(* The interfaces: <<method, number of parameters, returns a value>>,      *)
(* one row per virtual method the glue code implements or calls.           *)

IReaperControlSurface_methods ==
  { <<"GetTypeString", 0, TRUE>>, <<"GetDescString", 0, TRUE>>,
    <<"GetConfigString", 0, TRUE>>, <<"CloseNoReset", 0, FALSE>>,
    <<"Run", 0, FALSE>>, <<"SetTrackListChange", 0, FALSE>>,
    <<"SetSurfaceVolume", 2, FALSE>>, <<"SetSurfacePan", 2, FALSE>>,
    <<"SetSurfaceMute", 2, FALSE>>, <<"SetSurfaceSelected", 2, FALSE>>,
    <<"SetSurfaceSolo", 2, FALSE>>, <<"SetSurfaceRecArm", 2, FALSE>>,
    <<"SetPlayState", 3, FALSE>>, <<"SetRepeatState", 1, FALSE>>,
    <<"SetTrackTitle", 2, FALSE>>, <<"GetTouchState", 2, TRUE>>,
    <<"SetAutoMode", 1, FALSE>>, <<"ResetCachedVolPanStates", 0, FALSE>>,
    <<"OnTrackSelection", 1, FALSE>>, <<"IsKeyDown", 1, TRUE>>,
    <<"Extended", 4, TRUE>> }

PCM_source_methods ==
  { <<"Duplicate", 0, TRUE>>, <<"IsAvailable", 0, TRUE>>,
    <<"GetType", 0, TRUE>>, <<"SetFileName", 1, TRUE>>,
    <<"GetNumChannels", 0, TRUE>>, <<"GetSampleRate", 0, TRUE>>,
    <<"GetLength", 0, TRUE>>, <<"PropertiesWindow", 1, TRUE>>,
    <<"GetSamples", 1, FALSE>>, <<"GetPeakInfo", 1, FALSE>>,
    <<"SaveState", 1, FALSE>>, <<"LoadState", 2, TRUE>>,
    <<"Peaks_Clear", 1, FALSE>>, <<"PeaksBuild_Begin", 0, TRUE>>,
    <<"PeaksBuild_Run", 0, TRUE>>, <<"PeaksBuild_Finish", 0, FALSE>>,
    <<"SetAvailable", 1, FALSE>>, <<"GetFileName", 0, TRUE>>,
    <<"GetSource", 0, TRUE>>, <<"SetSource", 1, FALSE>>,
    <<"GetLengthBeats", 0, TRUE>>, <<"GetBitsPerSample", 0, TRUE>>,
    <<"GetPreferredPosition", 0, TRUE>>, <<"Extended", 4, TRUE>> }

PCM_sink_methods ==
  { <<"GetOutputInfoString", 2, FALSE>>, <<"GetFileName", 0, TRUE>>,
    <<"GetNumChannels", 0, TRUE>>, <<"GetLength", 0, TRUE>>,
    <<"GetFileSize", 0, TRUE>>, <<"WriteMIDI", 3, FALSE>>,
    <<"WriteDoubles", 5, FALSE>>, <<"GetStartTime", 0, TRUE>>,
    <<"SetStartTime", 1, FALSE>>, <<"WantMIDI", 0, TRUE>>,
    <<"GetLastSecondPeaks", 2, TRUE>>, <<"GetPeakInfo", 1, FALSE>>,
    <<"Extended", 4, TRUE>> }

\* AddLine(fmt, ...) is variadic: its row counts the format parameter only.
ProjectStateContext_methods ==
  { <<"AddLine", 1, FALSE>>, <<"GetLine", 2, TRUE>>,
    <<"GetOutputSize", 0, TRUE>>, <<"GetTempFlag", 0, TRUE>>,
    <<"SetTempFlag", 1, FALSE>> }

MIDI_eventlist_methods == { <<"EnumItems", 1, TRUE>>, <<"AddItem", 1, FALSE>> }

\* An accessor table that also offers midi_Input_SwapBufs.
midi_Input_methods_withSwapBufs ==
  { <<"GetReadBuf", 0, TRUE>>, <<"SwapBufs", 1, FALSE>> }

midi_Input_methods == { <<"GetReadBuf", 0, TRUE>> }

midi_Output_methods == { <<"Send", 4, FALSE>>, <<"SendMsg", 2, FALSE>> }

IReaperPitchShift_methods ==
  { <<"set_srate", 1, FALSE>>, <<"set_nch", 1, FALSE>>,
    <<"set_shift", 1, FALSE>>, <<"set_formant_shift", 1, FALSE>>,
    <<"set_tempo", 1, FALSE>>, <<"Reset", 0, FALSE>>,
    <<"GetBuffer", 1, TRUE>>, <<"BufferDone", 1, FALSE>>,
    <<"FlushSamples", 0, FALSE>>, <<"IsReset", 0, TRUE>>,
    <<"GetSamples", 2, TRUE>>, <<"SetQualityParameter", 1, FALSE>>,
    <<"Extended", 4, TRUE>> }

REAPER_Resample_Interface_methods ==
  { <<"SetRates", 2, FALSE>>, <<"Reset", 0, FALSE>>,
    <<"GetCurrentLatency", 0, TRUE>>, <<"ResamplePrepare", 3, TRUE>>,
    <<"ResampleOut", 4, TRUE>>, <<"Extended", 4, TRUE>> }

\* Interfaces for which a CppToRust adapter class exists.
AdapterIfaces ==
  {"IReaperControlSurface", "PCM_source", "PCM_sink", "ProjectStateContext"}

\* Interfaces for which Rust -> C++ accessor functions exist.
AccessorIfaces ==
  {"PCM_source", "PCM_sink", "ProjectStateContext", "MIDI_eventlist",
   "midi_Input", "midi_Output", "IReaperPitchShift",
   "REAPER_Resample_Interface"}

MethodTable(iface) ==
  CASE iface = "IReaperControlSurface" -> IReaperControlSurface_methods
    [] iface = "PCM_source" -> PCM_source_methods
    [] iface = "PCM_sink" -> PCM_sink_methods
    [] iface = "ProjectStateContext" -> ProjectStateContext_methods
    [] iface = "MIDI_eventlist" -> MIDI_eventlist_methods
    [] iface = "midi_Input" -> midi_Input_methods
    [] iface = "midi_Output" -> midi_Output_methods
    [] iface = "IReaperPitchShift" -> IReaperPitchShift_methods
    [] iface = "REAPER_Resample_Interface" -> REAPER_Resample_Interface_methods

Methods(iface) == { row[1] : row \in MethodTable(iface) }

Row(iface, m) == CHOOSE row \in MethodTable(iface) : row[1] = m

Arity(iface, m) == Row(iface, m)[2]

Returns(iface, m) == Row(iface, m)[3]

\* Methods whose parameters are (char* buf, int buflen).
IsTextOut(iface, m) ==
  \/ iface = "ProjectStateContext" /\ m = "GetLine"
  \/ iface = "PCM_sink" /\ m = "GetOutputInfoString"

IsAddLine(iface, m) == iface = "ProjectStateContext" /\ m = "AddLine"


-----------------------------------------------------------------------------
(* Heap objects.                                                           *)

\* A slot that no allocation has used yet.
Unborn ==
  [st |-> "unborn", iface |-> "", impl |-> "", callback_target_ |-> NoHandle,
   ctor_arg |-> NoHandle]

\* A constructor that forgets to initialise callback_target_.
CppToRustObject_uninitialised(iface, callback_target) ==
  [st |-> "live", iface |-> iface, impl |-> "CppToRust",
   callback_target_ |-> NoHandle, ctor_arg |-> callback_target]

\* An object made by `new CppToRust<...>(callback_target)`: the constructor
\* stores its argument in callback_target_.  ctor_arg remembers the
\* argument the constructor was given (history, no field of the class).
CppToRustObject(iface, callback_target) ==
  [st |-> "live", iface |-> iface, impl |-> "CppToRust",
   callback_target_ |-> callback_target, ctor_arg |-> callback_target]

\* An object of the host (REAPER) that implements iface itself.
HostObject(iface) ==
  [st |-> "live", iface |-> iface, impl |-> "Host",
   callback_target_ |-> NoHandle, ctor_arg |-> NoHandle]

\* What is left of an object after `delete`: a dangling pointer of the
\* interface type.
Freed(iface) ==
  [st |-> "freed", iface |-> iface, impl |-> "", callback_target_ |-> NoHandle,
   ctor_arg |-> NoHandle]

Live(o) == heap[o].st = "live"

IsAdapter(o) == Live(o) /\ heap[o].impl = "CppToRust"

NoEnv == [r |-> 0, required |-> 0, crash |-> FALSE]

\* The record of an operation: the calls it made across a boundary,
\* what it returned and how many bytes were written to the caller's buffer.
Idle ==
  [op |-> "none", self |-> 0, iface |-> "", method |-> "", args |-> <<>>,
   handle |-> NoHandle, env |-> NoEnv, vcalls |-> <<>>, fcalls |-> <<>>,
   ret |-> <<>>, written |-> 0, outcome |-> "ok"]

\* Every function of the layer runs to completion on its caller's thread:
\* a caller makes its next call after the previous one has returned and
\* the process still runs.
CanCall == ~aborted /\ last = Idle

\* The caller has taken the result of its call and goes on.
CallerContinues ==
  /\ ~aborted
  /\ last # Idle
  /\ last' = Idle
  /\ UNCHANGED <<heap, boxes, aborted>>
  /\ UNCHANGED OutsideGlue

-----------------------------------------------------------------------------
(* Callees on the far side of the boundary.                                *)

Min(a, b) == IF a <= b THEN a ELSE b

\* What the callee chooses: the value it returns, or the length of the text
\* it has to deliver.
Choices(iface, m) ==
  IF IsTextOut(iface, m)
    THEN { [r |-> 0, required |-> n, crash |-> FALSE] : n \in TextLens }
    ELSE IF Returns(iface, m)
      THEN { [r |-> v, required |-> 0, crash |-> FALSE] : v \in RetVals }
      ELSE { [r |-> 0, required |-> 0, crash |-> FALSE] }

\* A Rust entry point that is handed a callback_target whose box Rust has
\* already dropped dereferences a dangling pointer (undefined behaviour):
\* it may return like any other call, or bring the process down.
EnvChoices(o, iface, m) ==
  Choices(iface, m) \cup
    IF IsAdapter(o) /\ heap[o].callback_target_ \notin boxes
      THEN { [r |-> 0, required |-> 0, crash |-> TRUE] }
      ELSE {}

\* Extended(call, parm1, parm2, parm3), the catch-all method of several
\* interfaces.
IsExtended(m) == m = "Extended"

\* The call codes that the implementation behind an Extended method
\* handles; for every other code it answers NotHandled.
HandledCodes == {10}

NotHandled == 0

\* The implementation of a method (the Rust function behind a cpp_to_rust
\* entry point, or the host's own implementation of a virtual method),
\* given the arguments that reached it.  A text method writes its text
\* truncated to the capacity it was given; GetLine reports the required
\* length, GetOutputInfoString is void.
Callee(iface, m, args, env) ==
  IF env.crash
    THEN [ret |-> <<>>, written |-> 0, crashed |-> TRUE]
  ELSE IF IsTextOut(iface, m)
    THEN [ret |-> IF Returns(iface, m) THEN <<env.required>> ELSE <<>>,
          written |-> Min(env.required, args[2]), crashed |-> FALSE]
  ELSE IF IsExtended(m) /\ args[1] \notin HandledCodes
    THEN [ret |-> <<NotHandled>>, written |-> 0, crashed |-> FALSE]
    ELSE [ret |-> IF Returns(iface, m) THEN <<env.r>> ELSE <<>>,
          written |-> 0, crashed |-> FALSE]

-----------------------------------------------------------------------------
(* C++ -> Rust: the adapter classes.                                       *)

\* One call of the free function cpp_to_rust_<iface>_<m>, with the value
\* it returned.
EntryCall(iface, m, callback_target, args, result) ==
  [entry |-> <<"cpp_to_rust", iface, m>>, callback_target |-> callback_target,
   args |-> args, result |-> result]

\* The arguments a method hands to its entry point after callback_target_:
\* its own parameters in order; AddLine(fmt, ...) hands over fmt alone.
ForwardedArgs(iface, m, args) ==
  IF IsAddLine(iface, m) THEN <<args[1]>> ELSE args

\* Reverses a sequence.
Reversed(seq) == [i \in 1..Len(seq) |-> seq[Len(seq) + 1 - i]]

\* A method body that hands its parameters over in the wrong order.
CppToRustMethod_swapped(iface, m, callback_target, args, env) ==
  LET passed == Reversed(ForwardedArgs(iface, m, args))
      reply == Callee(iface, m, passed, env)
  IN  [fcalls |-> <<EntryCall(iface, m, callback_target, passed, reply.ret)>>,
       ret |-> reply.ret, written |-> reply.written,
       crashed |-> reply.crashed]

\* A method body that forwards only while Rust still owns the box and
\* otherwise returns the inert value.
CppToRustMethod_checked(iface, m, callback_target, args, env) ==
  LET passed == ForwardedArgs(iface, m, args)
      reply == Callee(iface, m, passed, env)
  IN  IF callback_target \in boxes
        THEN [fcalls |-> <<EntryCall(iface, m, callback_target, passed,
                                     reply.ret)>>,
              ret |-> reply.ret, written |-> reply.written,
              crashed |-> reply.crashed]
        ELSE [fcalls |-> <<>>,
              ret |-> IF Returns(iface, m) THEN <<0>> ELSE <<>>,
              written |-> 0, crashed |-> FALSE]

\* A method body that knows the call codes of Extended and answers the
\* others itself, without forwarding them.
CppToRustMethod_rejecting(iface, m, callback_target, args, env) ==
  LET passed == ForwardedArgs(iface, m, args)
      reply == Callee(iface, m, passed, env)
  IN  IF IsExtended(m) /\ args[1] \notin HandledCodes
        THEN [fcalls |-> <<>>, ret |-> <<NotHandled>>, written |-> 0,
              crashed |-> FALSE]
        ELSE [fcalls |-> <<EntryCall(iface, m, callback_target, passed,
                                     reply.ret)>>,
              ret |-> reply.ret, written |-> reply.written,
              crashed |-> reply.crashed]

\* A method body that tells its entry point the buffer is one byte longer
\* than it is.
CppToRustMethod_widened(iface, m, callback_target, args, env) ==
  LET passed == IF IsTextOut(iface, m) THEN <<args[1], args[2] + 1>>
                ELSE ForwardedArgs(iface, m, args)
      reply == Callee(iface, m, passed, env)
  IN  [fcalls |-> <<EntryCall(iface, m, callback_target, passed, reply.ret)>>,
       ret |-> reply.ret, written |-> reply.written,
       crashed |-> reply.crashed]

\* The body of every virtual method of a CppToRust class:
\*   return cpp_to_rust_<iface>_<m>(this->callback_target_, args...);
CppToRustMethod(iface, m, callback_target, args, env) ==
  LET passed == ForwardedArgs(iface, m, args)
      reply == Callee(iface, m, passed, env)
  IN  [fcalls |-> <<EntryCall(iface, m, callback_target, passed, reply.ret)>>,
       ret |-> reply.ret, written |-> reply.written,
       crashed |-> reply.crashed]

\* A virtual call obj->m(args), dispatched on the object's class.
VirtualCall(o, iface, m, args, env) ==
  IF heap[o].impl = "CppToRust"
    THEN CppToRustMethod(iface, m, heap[o].callback_target_, args, env)
    ELSE LET reply == Callee(iface, m, args, env)
         IN  [fcalls |-> <<>>, ret |-> reply.ret, written |-> reply.written,
              crashed |-> reply.crashed]

\* The argument lists a caller may pass to method m.
ArgsOf(iface, m) ==
  IF IsAddLine(iface, m) THEN AddLineInputs
  ELSE IF IsTextOut(iface, m) THEN { <<1, cap>> : cap \in Capacities }
  ELSE ArgVectors(Arity(iface, m))

\* An adapter that takes CloseNoReset as its own end: it destroys itself
\* after forwarding it.
HostInvokes_closing(o, iface) ==
  /\ CanCall
  /\ UNCHANGED OutsideGlue
  /\ IsAdapter(o)
  /\ heap[o].iface = iface
  /\ \E m \in Methods(iface) :
       \E args \in ArgsOf(iface, m) :
         \E env \in EnvChoices(o, iface, m) :
           LET done == VirtualCall(o, iface, m, args, env)
           IN  /\ last' = [Idle EXCEPT !.op = "virtual", !.self = o,
                             !.iface = iface, !.method = m, !.args = args,
                             !.handle = heap[o].ctor_arg, !.env = env,
                             !.fcalls = done.fcalls, !.ret = done.ret,
                             !.written = done.written,
                             !.outcome = IF done.crashed THEN "abort" ELSE "ok"]
               /\ aborted' = done.crashed
               /\ heap' = IF m = "CloseNoReset"
                            THEN [heap EXCEPT ![o] = Freed(iface)]
                            ELSE heap
  /\ UNCHANGED boxes

\* The host invokes a virtual method on adapter o.
HostInvokes(o, iface) ==
  /\ CanCall
  /\ UNCHANGED OutsideGlue
  /\ IsAdapter(o)
  /\ heap[o].iface = iface
  /\ \E m \in Methods(iface) :
       \E args \in ArgsOf(iface, m) :
         \E env \in EnvChoices(o, iface, m) :
           LET done == VirtualCall(o, iface, m, args, env)
           IN  /\ last' = [Idle EXCEPT !.op = "virtual", !.self = o,
                             !.iface = iface, !.method = m, !.args = args,
                             !.handle = heap[o].ctor_arg, !.env = env,
                             !.fcalls = done.fcalls, !.ret = done.ret,
                             !.written = done.written,
                             !.outcome = IF done.crashed THEN "abort" ELSE "ok"]
               /\ aborted' = done.crashed
  /\ UNCHANGED <<heap, boxes>>

CppToRustControlSurface(o) == HostInvokes(o, "IReaperControlSurface")

CppToRustPcmSource(o) == HostInvokes(o, "PCM_source")

CppToRustPcmSink(o) == HostInvokes(o, "PCM_sink")

CppToRustProjectStateContext(o) == HostInvokes(o, "ProjectStateContext")

-----------------------------------------------------------------------------
(* Creation and destruction.                                               *)

HasFreeSlot == \E o \in ObjIds : heap[o].st = "unborn"

NextSlot == CHOOSE o \in ObjIds : heap[o].st = "unborn" /\
                                    \A p \in ObjIds : p < o => heap[p].st # "unborn"

\* A create that refuses a callback_target some live adapter already holds
\* and returns a null pointer for it.
CreateCppToRust_exclusive(iface, callback_target) ==
  /\ CanCall
  /\ UNCHANGED OutsideGlue
  /\ HasFreeSlot
  /\ IF \E o \in ObjIds :
          IsAdapter(o) /\ heap[o].callback_target_ = callback_target
       THEN /\ last' = [Idle EXCEPT !.op = "create", !.iface = iface,
                          !.handle = callback_target, !.ret = <<0>>]
            /\ UNCHANGED heap
       ELSE /\ heap' = [heap EXCEPT
                          ![NextSlot] = CppToRustObject(iface, callback_target)]
            /\ last' = [Idle EXCEPT !.op = "create", !.self = NextSlot,
                          !.iface = iface, !.handle = callback_target,
                          !.ret = <<NextSlot>>]
  /\ UNCHANGED <<boxes, aborted>>

\* return new CppToRust<...>(callback_target);
CreateCppToRust(iface, callback_target) ==
  /\ CanCall
  /\ UNCHANGED OutsideGlue
  /\ HasFreeSlot
  /\ heap' = [heap EXCEPT ![NextSlot] = CppToRustObject(iface, callback_target)]
  /\ last' = [Idle EXCEPT !.op = "create", !.self = NextSlot, !.iface = iface,
                !.handle = callback_target, !.ret = <<NextSlot>>]
  /\ UNCHANGED <<boxes, aborted>>

create_cpp_to_rust_control_surface(callback_target) ==
  CreateCppToRust("IReaperControlSurface", callback_target)

create_cpp_to_rust_pcm_source(callback_target) ==
  CreateCppToRust("PCM_source", callback_target)

create_cpp_to_rust_pcm_sink(callback_target) ==
  CreateCppToRust("PCM_sink", callback_target)

create_cpp_to_rust_project_state_context(callback_target) ==
  CreateCppToRust("ProjectStateContext", callback_target)

\* What `delete p` can do when p points to an object that was already
\* deleted (undefined behaviour): the allocator detects it and aborts the
\* process, or the memory is released a second time.
DoubleDeleteOutcomes == {"abort", "double_free"}

\* A destructor that owns the box: it releases callback_target_ as well.
DeleteObject_releasesHandle(o, iface) ==
  /\ CanCall
  /\ UNCHANGED OutsideGlue
  /\ Live(o)
  /\ heap[o].iface = iface
  /\ heap' = [heap EXCEPT ![o] = Freed(iface)]
  /\ boxes' = boxes \ {heap[o].callback_target_}
  /\ last' = [Idle EXCEPT !.op = "delete", !.self = o, !.iface = iface,
                !.handle = heap[o].callback_target_, !.outcome = "destroyed"]
  /\ UNCHANGED aborted

\* A delete that ends every object that wraps the handle of the one it
\* was given.
DeleteObject_sweeping(o, iface) ==
  /\ CanCall
  /\ UNCHANGED OutsideGlue
  /\ Live(o)
  /\ heap[o].iface = iface
  /\ heap' = [p \in ObjIds |->
                IF p = o \/ (IsAdapter(o) /\ IsAdapter(p) /\
                             heap[p].callback_target_ = heap[o].callback_target_)
                  THEN Freed(heap[p].iface) ELSE heap[p]]
  /\ last' = [Idle EXCEPT !.op = "delete", !.self = o, !.iface = iface,
                !.handle = heap[o].callback_target_, !.outcome = "destroyed"]
  /\ UNCHANGED <<boxes, aborted>>

\* A delete that first looks the pointer up in a table of live objects and
\* does nothing for one it does not find.
DeleteObject_guarded(o, iface) ==
  /\ CanCall
  /\ UNCHANGED OutsideGlue
  /\ heap[o].st \in {"live", "freed"}
  /\ heap[o].iface = iface
  /\ heap' = [heap EXCEPT ![o] = Freed(iface)]
  /\ last' = [Idle EXCEPT !.op = "delete", !.self = o, !.iface = iface,
                !.handle = heap[o].callback_target_,
                !.outcome = IF Live(o) THEN "destroyed" ELSE "noop"]
  /\ UNCHANGED <<boxes, aborted>>

\* A delete that never frees the object.
DeleteObject_leaks(o, iface) ==
  /\ CanCall
  /\ UNCHANGED OutsideGlue
  /\ Live(o)
  /\ heap[o].iface = iface
  /\ last' = [Idle EXCEPT !.op = "delete", !.self = o, !.iface = iface,
                !.handle = heap[o].callback_target_, !.outcome = "destroyed"]
  /\ UNCHANGED <<heap, boxes, aborted>>

\* delete p;  for p of type iface*.
DeleteObject(o, iface) ==
  /\ CanCall
  /\ UNCHANGED OutsideGlue
  /\ heap[o].st \in {"live", "freed"}
  /\ heap[o].iface = iface
  /\ IF Live(o)
       THEN /\ heap' = [heap EXCEPT ![o] = Freed(iface)]
            /\ last' = [Idle EXCEPT !.op = "delete", !.self = o,
                          !.iface = iface, !.handle = heap[o].callback_target_,
                          !.outcome = "destroyed"]
            /\ UNCHANGED <<boxes, aborted>>
       ELSE \E out \in DoubleDeleteOutcomes :
              /\ last' = [Idle EXCEPT !.op = "delete", !.self = o,
                            !.iface = iface, !.outcome = out]
              /\ aborted' = (out = "abort")
              /\ UNCHANGED <<heap, boxes>>

delete_control_surface(surface) == DeleteObject(surface, "IReaperControlSurface")

delete_pcm_source(source) == DeleteObject(source, "PCM_source")

delete_pcm_sink(sink) == DeleteObject(sink, "PCM_sink")

delete_project_state_context(context) == DeleteObject(context, "ProjectStateContext")

delete_reaper_pitch_shift(pitch_shift) == DeleteObject(pitch_shift, "IReaperPitchShift")

delete_reaper_resample_interface(resample_interface) ==
  DeleteObject(resample_interface, "REAPER_Resample_Interface")

-----------------------------------------------------------------------------
(* The environment: the host hands out its own objects, and Rust, which    *)
(* owns the boxes, drops one.                                              *)

HostProvides(iface) ==
  /\ CanCall
  /\ UNCHANGED OutsideGlue
  /\ HasFreeSlot
  /\ heap' = [heap EXCEPT ![NextSlot] = HostObject(iface)]
  /\ last' = [Idle EXCEPT !.op = "host_new", !.self = NextSlot, !.iface = iface,
                !.ret = <<NextSlot>>]
  /\ UNCHANGED <<boxes, aborted>>

RustDropsBox(h) ==
  /\ CanCall
  /\ UNCHANGED OutsideGlue
  /\ h \in boxes
  /\ boxes' = boxes \ {h}
  /\ last' = [Idle EXCEPT !.op = "drop", !.handle = h]
  /\ UNCHANGED <<heap, aborted>>

-----------------------------------------------------------------------------
(* Rust -> C++: the accessor functions.                                    *)

\* The argument lists Rust may pass to an accessor after self.  The
\* accessor for AddLine takes one line, not a format with arguments.
AccessorArgsOf(iface, m) ==
  IF IsAddLine(iface, m) THEN { <<Fmt_d_s>>, <<Text_ab>> }
  ELSE ArgsOf(iface, m)

\* One virtual call self->m(args), with the value it returned.
VCall(self, iface, m, args, result) ==
  [self |-> self, iface |-> iface, method |-> m, args |-> args,
   result |-> result]

\* An accessor that makes its virtual call, drops the result and makes the
\* call again for the value it returns.
AccessorBody_repeating(self, iface, m, args, env) ==
  IF IsAddLine(iface, m)
    THEN [vcalls |-> <<>>, fcalls |-> <<>>, ret |-> <<>>, written |-> 0,
          crashed |-> FALSE]
    ELSE LET done == VirtualCall(self, iface, m, args, env)
         IN  [vcalls |-> <<VCall(self, iface, m, args, done.ret),
                           VCall(self, iface, m, args, done.ret)>>,
              fcalls |-> done.fcalls \o done.fcalls, ret |-> done.ret,
              written |-> done.written, crashed |-> done.crashed]

\* The body of an accessor function:  return self->m(args...);
\* rust_to_cpp_ProjectStateContext_AddLine has an empty body (the call is
\* commented out).
AccessorBody(self, iface, m, args, env) ==
  IF IsAddLine(iface, m)
    THEN [vcalls |-> <<>>, fcalls |-> <<>>, ret |-> <<>>, written |-> 0,
          crashed |-> FALSE]
    ELSE LET done == VirtualCall(self, iface, m, args, env)
         IN  [vcalls |-> <<VCall(self, iface, m, args, done.ret)>>,
              fcalls |-> done.fcalls, ret |-> done.ret,
              written |-> done.written, crashed |-> done.crashed]

\* An accessor that takes the object over: it destroys self once the
\* virtual call has returned.
RustInvokes_owning(self, iface) ==
  /\ CanCall
  /\ UNCHANGED OutsideGlue
  /\ Live(self)
  /\ heap[self].iface = iface
  /\ \E m \in Methods(iface) :
       \E args \in AccessorArgsOf(iface, m) :
         \E env \in EnvChoices(self, iface, m) :
           LET done == AccessorBody(self, iface, m, args, env)
           IN  /\ last' = [Idle EXCEPT !.op = "accessor", !.self = self,
                             !.iface = iface, !.method = m, !.args = args,
                             !.handle = heap[self].ctor_arg, !.env = env,
                             !.vcalls = done.vcalls, !.fcalls = done.fcalls,
                             !.ret = done.ret, !.written = done.written,
                             !.outcome = IF done.crashed THEN "abort" ELSE "ok"]
               /\ aborted' = done.crashed
  /\ heap' = [heap EXCEPT ![self] = Freed(iface)]
  /\ UNCHANGED boxes

\* Rust calls an accessor of iface on the object self.
RustInvokes(self, iface) ==
  /\ CanCall
  /\ UNCHANGED OutsideGlue
  /\ Live(self)
  /\ heap[self].iface = iface
  /\ \E m \in Methods(iface) :
       \E args \in AccessorArgsOf(iface, m) :
         \E env \in EnvChoices(self, iface, m) :
           LET done == AccessorBody(self, iface, m, args, env)
           IN  /\ last' = [Idle EXCEPT !.op = "accessor", !.self = self,
                             !.iface = iface, !.method = m, !.args = args,
                             !.handle = heap[self].ctor_arg, !.env = env,
                             !.vcalls = done.vcalls, !.fcalls = done.fcalls,
                             !.ret = done.ret, !.written = done.written,
                             !.outcome = IF done.crashed THEN "abort" ELSE "ok"]
               /\ aborted' = done.crashed
  /\ UNCHANGED <<heap, boxes>>

rust_to_cpp_PCM_source(self) == RustInvokes(self, "PCM_source")

rust_to_cpp_PCM_sink(self) == RustInvokes(self, "PCM_sink")

rust_to_cpp_ProjectStateContext(self) == RustInvokes(self, "ProjectStateContext")

MIDI_eventlist(self) == RustInvokes(self, "MIDI_eventlist")

midi_Input(self) == RustInvokes(self, "midi_Input")

midi_Output(self) == RustInvokes(self, "midi_Output")

IReaperPitchShift(self) == RustInvokes(self, "IReaperPitchShift")

REAPER_Resample_Interface(self) == RustInvokes(self, "REAPER_Resample_Interface")

-----------------------------------------------------------------------------
(* The rest of the process: threads, static objects, SWELL pointers.       *)

\* The threads that call into the layer: the main thread, and the audio
\* thread, on which the host makes its real-time calls.
AudioThread == "audio"

Threads == {"main", AudioThread}

\* A thread that is in no call of the layer.
NoFrame ==
  [kind |-> "none", self |-> 0, todo |-> <<>>, callee |-> "none",
   calls |-> 0, guarded |-> FALSE, returned |-> FALSE, late |-> FALSE,
   unwound |-> FALSE, uaf |-> FALSE, raced |-> FALSE, allocs |-> 0,
   locks |-> 0]

\* The function-local statics before the first call of their accessors:
\* SURFACE of get_surface and CONTROL_SURFACE of create_control_surface.
\* unit is the translation unit that is linked in.
NoStatics ==
  [unit |-> "none",
   SURFACE |-> [constructed |-> FALSE],
   CONTROL_SURFACE |-> [constructed |-> FALSE, callback_target_ |-> NoHandle]]

\* The names of api_tab, in the order of the table.
SwellNames ==
  <<"CreateDialogParam", "SetDlgItemText", "GetDlgItem", "DestroyWindow">>

\* A null function pointer: the value of a global before it is initialised.
NullFunc == [lib |-> "none", name |-> "null"]

-----------------------------------------------------------------------------
(* The specification.                                                      *)

Init ==
  /\ heap = [o \in ObjIds |-> Unborn]
  /\ boxes = Handles
  /\ aborted = FALSE
  /\ last = Idle
  /\ frames = [t \in Threads |-> NoFrame]
  /\ statics = NoStatics
  /\ api_tab = [x \in DOMAIN SwellNames |-> NullFunc]

Next ==
  \/ \E h \in Handles : create_cpp_to_rust_control_surface(h)
  \/ \E h \in Handles : create_cpp_to_rust_pcm_source(h)
  \/ \E h \in Handles : create_cpp_to_rust_pcm_sink(h)
  \/ \E h \in Handles : create_cpp_to_rust_project_state_context(h)
  \/ \E o \in ObjIds : delete_control_surface(o)
  \/ \E o \in ObjIds : delete_pcm_source(o)
  \/ \E o \in ObjIds : delete_pcm_sink(o)
  \/ \E o \in ObjIds : delete_project_state_context(o)
  \/ \E o \in ObjIds : delete_reaper_pitch_shift(o)
  \/ \E o \in ObjIds : delete_reaper_resample_interface(o)
  \/ \E iface \in AccessorIfaces : HostProvides(iface)
  \/ \E h \in Handles : RustDropsBox(h)
  \/ \E o \in ObjIds : CppToRustControlSurface(o)
  \/ \E o \in ObjIds : CppToRustPcmSource(o)
  \/ \E o \in ObjIds : CppToRustPcmSink(o)
  \/ \E o \in ObjIds : CppToRustProjectStateContext(o)
  \/ \E o \in ObjIds : rust_to_cpp_PCM_source(o)
  \/ \E o \in ObjIds : rust_to_cpp_PCM_sink(o)
  \/ \E o \in ObjIds : rust_to_cpp_ProjectStateContext(o)
  \/ \E o \in ObjIds : MIDI_eventlist(o)
  \/ \E o \in ObjIds : midi_Input(o)
  \/ \E o \in ObjIds : midi_Output(o)
  \/ \E o \in ObjIds : IReaperPitchShift(o)
  \/ \E o \in ObjIds : REAPER_Resample_Interface(o)
  \/ CallerContinues

Spec == Init /\ [][Next]_vars


-----------------------------------------------------------------------------
(* The method bodies statement by statement, run by several threads.       *)

\* The methods the host calls on its real-time audio thread: sample
\* transfer, peak transfer, MIDI send and receive.
RealTimeMethods ==
  { <<"PCM_source", "GetSamples">>, <<"PCM_source", "GetPeakInfo">>,
    <<"PCM_sink", "WriteDoubles">>, <<"PCM_sink", "WriteMIDI">>,
    <<"PCM_sink", "GetPeakInfo">>, <<"midi_Output", "Send">>,
    <<"midi_Output", "SendMsg">>, <<"midi_Input", "GetReadBuf">>,
    <<"MIDI_eventlist", "EnumItems">>, <<"MIDI_eventlist", "AddItem">> }

IsRealTime(iface, m) == <<iface, m>> \in RealTimeMethods

\* A body that returns first and makes its forwarded call later.
MethodBody_deferred(kind, iface, m) ==
  IF kind = "virtual" THEN <<"return", "load", "call">>
  ELSE IF IsAddLine(iface, m) THEN <<"return">>
  ELSE <<"return", "dispatch">>

\* A body that hands its forwarded call to a worker: it reads the handle,
\* returns, and the call is made afterwards.
MethodBody_posting(kind, iface, m) ==
  IF kind = "virtual" THEN <<"load", "return", "call">>
  ELSE IF IsAddLine(iface, m) THEN <<"return">>
  ELSE <<"return", "dispatch">>

\* A body that takes a lock around its forwarded call.
MethodBody_locking(kind, iface, m) ==
  IF kind = "virtual" THEN <<"lock", "load", "call", "unlock", "return">>
  ELSE IF IsAddLine(iface, m) THEN <<"return">>
  ELSE <<"lock", "dispatch", "unlock", "return">>

\* A body that wraps its forwarded call in try / catch (...).
MethodBody_catching(kind, iface, m) ==
  IF kind = "virtual" THEN <<"try", "load", "call", "return">>
  ELSE IF IsAddLine(iface, m) THEN <<"return">>
  ELSE <<"try", "dispatch", "return">>

\* The statements of a method body, in the order they run.
\*   adapter:   return cpp_to_rust_<iface>_<m>(this->callback_target_, ...);
\*              "load" reads this->callback_target_, "call" calls the entry
\*              point, "return" returns to the host.
\*   accessor:  return self->m(...);
\*              "dispatch" makes the virtual call through self.
\*   rust_to_cpp_ProjectStateContext_AddLine has no statement but return.
MethodBody(kind, iface, m) ==
  IF kind = "virtual" THEN <<"load", "call", "return">>
  ELSE IF IsAddLine(iface, m) THEN <<"return">>
  ELSE <<"dispatch", "return">>

\* Thread t is in no call: it has run every statement of its last body
\* and no callee of it is running.
ThreadFree(t) == frames[t].todo = <<>> /\ frames[t].callee # "running"

\* A frame of thread t that has entered a method and not left it.
InCall(t) ==
  /\ frames[t].kind # "none"
  /\ ~frames[t].returned
  /\ ~frames[t].unwound

\* Thread t enters method m of object o: real-time methods are called on
\* the audio thread, the others on the main thread.  raced notes that the
\* object was already destroyed when the call started.
Enters(t, kind, o, m) ==
  /\ IsRealTime(heap[o].iface, m) <=> t = AudioThread
  /\ frames' = [frames EXCEPT ![t] =
       [NoFrame EXCEPT !.kind = kind, !.self = o,
                       !.todo = MethodBody(kind, heap[o].iface, m),
                       !.raced = ~Live(o)]]

\* What is left of a frame once its method has run to its end: that it
\* was left, and how.
Left(f) ==
  [NoFrame EXCEPT !.kind = f.kind, !.calls = f.calls, !.callee = f.callee,
                  !.returned = f.returned, !.unwound = f.unwound]

\* The host, on thread t, invokes a virtual method of the adapter at o.
\* The layer does not know whether o still exists.
HostCalls(t, o) ==
  /\ ~aborted
  /\ ThreadFree(t)
  /\ heap[o].st \in {"live", "freed"}
  /\ heap[o].iface \in AdapterIfaces
  /\ heap[o].impl # "Host"
  /\ \E m \in Methods(heap[o].iface) : Enters(t, "virtual", o, m)
  /\ UNCHANGED <<heap, boxes, aborted, last, statics, api_tab>>

\* Rust, on thread t, calls an accessor function on the host's object o.
RustCalls(t, self) ==
  /\ ~aborted
  /\ ThreadFree(t)
  /\ heap[self].st \in {"live", "freed"}
  /\ heap[self].iface \in AccessorIfaces
  /\ heap[self].impl # "CppToRust"
  /\ \E m \in Methods(heap[self].iface) : Enters(t, "accessor", self, m)
  /\ UNCHANGED <<heap, boxes, aborted, last, statics, api_tab>>

\* The statements that read the object the method was called on.
TouchesObject(stmt) == stmt \in {"load", "dispatch"}

\* What a read of a destroyed object can do (undefined behaviour): the
\* process is brought down, or the read yields something and the body
\* goes on.
UseAfterFreeOutcomes == {"abort", "goes_on"}

\* Thread t runs the next statement of the body it is in.
Step(t) ==
  /\ ~aborted
  /\ frames[t].todo # <<>>
  /\ frames[t].callee # "running"
  /\ LET f == frames[t]
         stmt == Head(f.todo)
         gone == ~Live(f.self)
         bad == TouchesObject(stmt) /\ gone
         g == [f EXCEPT !.todo = Tail(f.todo),
                        !.uaf = f.uaf \/ bad,
                        !.raced = f.raced \/ (InCall(t) /\ gone)]
     IN  \E out \in IF bad THEN UseAfterFreeOutcomes ELSE {"goes_on"} :
           /\ aborted' = (out = "abort")
           /\ frames' = [frames EXCEPT ![t] =
                CASE stmt \in {"call", "dispatch"} ->
                       [g EXCEPT !.callee = "running", !.calls = f.calls + 1,
                                 !.late = f.late \/ f.returned]
                  [] stmt = "return" ->
                       IF g.todo = <<>>
                         THEN Left([g EXCEPT !.returned = TRUE])
                         ELSE [g EXCEPT !.returned = TRUE]
                  [] stmt = "try" -> [g EXCEPT !.guarded = TRUE]
                  [] stmt = "lock" -> [g EXCEPT !.locks = f.locks + 1]
                  [] stmt = "alloc" -> [g EXCEPT !.allocs = f.allocs + 1]
                  [] OTHER -> g]
  /\ UNCHANGED <<heap, boxes, last, statics, api_tab>>

\* What the callee of a forwarded call can do: return, or fail (a panic on
\* the Rust side, an exception on the C++ side).
CalleeResults == {"returned", "failed"}

\* What a failure that leaves an extern "C" function can do in a body
\* without a handler: it unwinds through the body into the caller's frame,
\* or the process is brought down.
UnwindOutcomes == {"unwound", "abort"}

\* The callee of thread t's forwarded call ends.
CalleeEnds(t) ==
  /\ ~aborted
  /\ frames[t].callee = "running"
  /\ LET f == frames[t]
         g == [f EXCEPT !.raced = f.raced \/ (InCall(t) /\ ~Live(f.self))]
     IN  \E result \in CalleeResults :
           IF result = "returned"
             THEN /\ frames' = [frames EXCEPT ![t] =
                                  [g EXCEPT !.callee = "returned"]]
                  /\ UNCHANGED aborted
           ELSE IF f.guarded
             THEN /\ frames' = [frames EXCEPT ![t] =
                                  [g EXCEPT !.callee = "failed"]]
                  /\ UNCHANGED aborted
             ELSE \E out \in UnwindOutcomes :
                    /\ frames' = [frames EXCEPT ![t] =
                         Left([g EXCEPT !.callee = "failed",
                                        !.unwound = (out = "unwound")])]
                    /\ aborted' = (out = "abort")
  /\ UNCHANGED <<heap, boxes, last, statics, api_tab>>

\* The objects the threads work on: adapters over one box, for an
\* interface with real-time methods and for one without, and objects of
\* the host, likewise.
ThreadNext ==
  \/ create_cpp_to_rust_control_surface("H1")
  \/ create_cpp_to_rust_pcm_source("H1")
  \/ \E o \in ObjIds : delete_control_surface(o)
  \/ \E o \in ObjIds : delete_pcm_source(o)
  \/ \E o \in ObjIds : delete_project_state_context(o)
  \/ \E iface \in {"midi_Output", "ProjectStateContext"} : HostProvides(iface)
  \/ CallerContinues
  \/ \E t \in Threads, o \in ObjIds : HostCalls(t, o)
  \/ \E t \in Threads, o \in ObjIds : RustCalls(t, o)
  \/ \E t \in Threads : Step(t)
  \/ \E t \in Threads : CalleeEnds(t)

ThreadSpec == Init /\ [][ThreadNext]_vars

-----------------------------------------------------------------------------
(* The single-instance control surface of the low_level snapshot: one      *)
(* function-local static per accessor.                                     *)

\* The two translation units that define class ReaperRsControlSurface in
\* namespace reaper_rs_control_surface; a build links one of them.
SurfaceUnits == {"surface.cpp", "control_surface.cpp"}

\* The address an accessor hands out: that of its static.
AddressOf(name) == <<"&", name>>

\* The static of the unit that is linked in.
StaticOf(unit) == IF unit = "surface.cpp" THEN "SURFACE" ELSE "CONTROL_SURFACE"

SurfaceInit ==
  /\ heap = [o \in ObjIds |-> Unborn]
  /\ boxes = Handles
  /\ aborted = FALSE
  /\ last = Idle
  /\ frames = [t \in Threads |-> NoFrame]
  /\ statics \in { [NoStatics EXCEPT !.unit = u] : u \in SurfaceUnits }
  /\ api_tab = [x \in DOMAIN SwellNames |-> NullFunc]

\* What no function of the two units touches.
OutsideSurface == <<heap, boxes, frames, api_tab>>

\* void* get_surface() {
\*   static ReaperRsControlSurface SURFACE;
\*   return (void*) &SURFACE;
\* }
get_surface ==
  /\ CanCall
  /\ statics.unit = "surface.cpp"
  /\ statics' = [statics EXCEPT !.SURFACE.constructed = TRUE]
  /\ last' = [Idle EXCEPT !.op = "get_surface",
                          !.ret = <<AddressOf("SURFACE")>>]
  /\ UNCHANGED aborted
  /\ UNCHANGED OutsideSurface

\* An accessor that builds its object anew in every call.
create_control_surface_rebuilding(callback_target) ==
  /\ CanCall
  /\ statics.unit = "control_surface.cpp"
  /\ statics' = [statics EXCEPT !.CONTROL_SURFACE =
                   [constructed |-> TRUE, callback_target_ |-> callback_target]]
  /\ last' = [Idle EXCEPT !.op = "create_control_surface",
                          !.handle = callback_target,
                          !.ret = <<AddressOf("CONTROL_SURFACE")>>]
  /\ UNCHANGED aborted
  /\ UNCHANGED OutsideSurface

\* void* create_control_surface(void* callback_target) {
\*   static ReaperRsControlSurface CONTROL_SURFACE(callback_target);
\*   return (void*) &CONTROL_SURFACE;
\* }
\* The static is constructed by the first call, from that call's argument.
create_control_surface(callback_target) ==
  /\ CanCall
  /\ statics.unit = "control_surface.cpp"
  /\ statics' = IF statics.CONTROL_SURFACE.constructed
                  THEN statics
                  ELSE [statics EXCEPT !.CONTROL_SURFACE =
                          [constructed |-> TRUE,
                           callback_target_ |-> callback_target]]
  /\ last' = [Idle EXCEPT !.op = "create_control_surface",
                          !.handle = callback_target,
                          !.ret = <<AddressOf("CONTROL_SURFACE")>>]
  /\ UNCHANGED aborted
  /\ UNCHANGED OutsideSurface

\* One call of a free function of namespace reaper_rs_control_surface.
SurfaceEntryCall(m, args, result) ==
  [entry |-> <<"reaper_rs_control_surface", m>>, args |-> args,
   result |-> result]

\* A method body of control_surface.cpp written like those of surface.cpp:
\* it hands over its own parameters and leaves the handle out.
ReaperRsControlSurfaceMethod_dropping(m, args, env) ==
  LET reply == Callee("IReaperControlSurface", m, args, env)
  IN  [fcalls |-> <<SurfaceEntryCall(m, args, reply.ret)>>,
       ret |-> reply.ret]

\* The body of a virtual method of ReaperRsControlSurface:
\*   surface.cpp:          return ::m(args...);
\*   control_surface.cpp:  return ::reaper_rs_control_surface::m(
\*                                    this->callback_target_, args...);
ReaperRsControlSurfaceMethod(m, args, env) ==
  LET reply == Callee("IReaperControlSurface", m, args, env)
      passed == IF statics.unit = "surface.cpp"
                  THEN args
                  ELSE <<statics.CONTROL_SURFACE.callback_target_>> \o args
  IN  [fcalls |-> <<SurfaceEntryCall(m, passed, reply.ret)>>,
       ret |-> reply.ret]

\* The host invokes a virtual method on the instance an accessor handed out.
ReaperRsControlSurface ==
  /\ CanCall
  /\ statics.unit \in SurfaceUnits
  /\ statics[StaticOf(statics.unit)].constructed
  /\ \E m \in Methods("IReaperControlSurface") :
       \E args \in ArgsOf("IReaperControlSurface", m) :
         \E env \in Choices("IReaperControlSurface", m) :
           LET done == ReaperRsControlSurfaceMethod(m, args, env)
           IN  last' = [Idle EXCEPT !.op = "static_virtual",
                          !.iface = "IReaperControlSurface", !.method = m,
                          !.args = args, !.env = env,
                          !.handle =
                            IF statics.unit = "surface.cpp" THEN NoHandle
                            ELSE statics.CONTROL_SURFACE.callback_target_,
                          !.fcalls = done.fcalls, !.ret = done.ret]
  /\ UNCHANGED <<statics, aborted>>
  /\ UNCHANGED OutsideSurface

\* The process ends: objects of static storage duration are destroyed.
ProcessExits ==
  /\ ~aborted
  /\ statics.unit \in SurfaceUnits
  /\ aborted' = TRUE
  /\ statics' = [statics EXCEPT !.SURFACE.constructed = FALSE,
                                !.CONTROL_SURFACE.constructed = FALSE]
  /\ UNCHANGED last
  /\ UNCHANGED OutsideSurface

SurfaceNext ==
  \/ get_surface
  \/ \E h \in Handles : create_control_surface(h)
  \/ ReaperRsControlSurface
  \/ CallerContinues
  \/ ProcessExits

SurfaceSpec == SurfaceInit /\ [][SurfaceNext]_vars

-----------------------------------------------------------------------------
(* The SWELL function pointers (swell-modstub-generic-custom.cpp).         *)

\* static int dummyFunc() { return 0; }
dummyFunc == [lib |-> "modstub", name |-> "dummyFunc"]

\* The libraries whose function provider may be passed in.
SwellLibs == {"libSwell", "libSwell_custom"}

\* A function provider: the library it belongs to and the names it does
\* not know.  The null provider is the null pointer.
NullProvider == [lib |-> "none", missing |-> {}]

Providers ==
  { [lib |-> l, missing |-> ms] :
      l \in SwellLibs, ms \in SUBSET { SwellNames[x] : x \in DOMAIN SwellNames } }

\* GetFunc(name): the address of the library's function of that name, or
\* null.
GetFunc(provider, name) ==
  IF name \in provider.missing THEN NullFunc
  ELSE [lib |-> provider.lib, name |-> name]

\* One call GetFunc(name) of the provider, with the pointer it returned.
ProviderCall(provider, name) ==
  [entry |-> <<"GetFunc", provider.lib>>, args |-> <<name>>,
   result |-> GetFunc(provider, name)]

\* A loop that gives up at the first name the provider does not know.
RECURSIVE doinit_stopping(_, _, _, _, _)
doinit_stopping(provider, x, tab, errcnt, asked) ==
  IF x > Len(SwellNames)
    THEN [tab |-> tab, errcnt |-> errcnt, asked |-> asked]
  ELSE LET f == GetFunc(provider, SwellNames[x])
           q == Append(asked, ProviderCall(provider, SwellNames[x]))
       IN  IF f = NullFunc
             THEN [tab |-> [tab EXCEPT ![x] = dummyFunc],
                   errcnt |-> errcnt + 1, asked |-> q]
             ELSE doinit_stopping(provider, x + 1, [tab EXCEPT ![x] = f],
                                  errcnt, q)

\* A loop that counts a name the provider does not know and leaves its
\* pointer as the provider returned it.
RECURSIVE doinit_counting(_, _, _, _, _)
doinit_counting(provider, x, tab, errcnt, asked) ==
  IF x > Len(SwellNames)
    THEN [tab |-> tab, errcnt |-> errcnt, asked |-> asked]
  ELSE LET f == GetFunc(provider, SwellNames[x])
           q == Append(asked, ProviderCall(provider, SwellNames[x]))
       IN  doinit_counting(provider, x + 1, [tab EXCEPT ![x] = f],
                           IF f = NullFunc THEN errcnt + 1 ELSE errcnt, q)

\* A loop that asks again for a name the provider did not know at first,
\* and counts the entries it has gone through.
RECURSIVE doinit_retrying(_, _, _, _, _)
doinit_retrying(provider, x, tab, errcnt, asked) ==
  IF x > Len(SwellNames)
    THEN [tab |-> tab, errcnt |-> errcnt, asked |-> asked]
  ELSE LET f == GetFunc(provider, SwellNames[x])
           q == Append(asked, ProviderCall(provider, SwellNames[x]))
       IN  IF f = NullFunc
             THEN doinit_retrying(provider, x + 1,
                    [tab EXCEPT ![x] = dummyFunc], errcnt + 1,
                    Append(q, ProviderCall(provider, SwellNames[x])))
             ELSE doinit_retrying(provider, x + 1, [tab EXCEPT ![x] = f],
                    errcnt, q)

\* static int doinit(void *(*GetFunc)(const char *name)), from entry x on:
\*   *api_tab[x].func = GetFunc(api_tab[x].name);
\*   if (!*api_tab[x].func) { errcnt++; *api_tab[x].func = (void *) &dummyFunc; }
\* and at the end of the table: return errcnt;
\* asked is the sequence of the calls of GetFunc made so far.
RECURSIVE doinit(_, _, _, _, _)
doinit(provider, x, tab, errcnt, asked) ==
  IF x > Len(SwellNames)
    THEN [tab |-> tab, errcnt |-> errcnt, asked |-> asked]
  ELSE LET f == GetFunc(provider, SwellNames[x])
           q == Append(asked, ProviderCall(provider, SwellNames[x]))
       IN  IF f = NullFunc
             THEN doinit(provider, x + 1, [tab EXCEPT ![x] = dummyFunc],
                         errcnt + 1, q)
             ELSE doinit(provider, x + 1, [tab EXCEPT ![x] = f], errcnt, q)

\* What the units outside the SWELL stub hold.
OutsideSwell == <<heap, boxes, frames, statics>>

\* The call of doinit that the entry point made, with the value doinit
\* returned (the entry point drops it).
DoinitCall(errcnt) == [callee |-> "doinit", result |-> errcnt]

\* An entry point that runs doinit whatever it is handed.
register_swell_function_provider_unguarded(_GetFunc) ==
  LET done == doinit(_GetFunc, 1, api_tab, 0, <<>>)
  IN  /\ CanCall
      /\ api_tab' = done.tab
      /\ last' = [Idle EXCEPT !.op = "register_swell_function_provider",
                              !.args = <<_GetFunc>>,
                              !.vcalls = <<DoinitCall(done.errcnt)>>,
                              !.fcalls = done.asked]
      /\ UNCHANGED aborted
      /\ UNCHANGED OutsideSwell

\* void register_swell_function_provider_called_from_rust(LPVOID _GetFunc) {
\*   if (_GetFunc) { doinit((void *(*)(const char *)) _GetFunc); }
\* }
\* The record keeps the call of doinit in vcalls and the calls of the
\* provider in fcalls.
register_swell_function_provider_called_from_rust(_GetFunc) ==
  LET done == doinit(_GetFunc, 1, api_tab, 0, <<>>)
  IN  /\ CanCall
      /\ api_tab' = IF _GetFunc # NullProvider THEN done.tab ELSE api_tab
      /\ last' = [Idle EXCEPT !.op = "register_swell_function_provider",
                    !.args = <<_GetFunc>>,
                    !.vcalls = IF _GetFunc # NullProvider
                                 THEN <<DoinitCall(done.errcnt)>> ELSE <<>>,
                    !.fcalls = IF _GetFunc # NullProvider
                                 THEN done.asked ELSE <<>>]
      /\ UNCHANGED aborted
      /\ UNCHANGED OutsideSwell

\* C++ code of the plug-in calls SWELL function x through its global
\* pointer.  A call through a pointer that is still null brings the
\* process down; dummyFunc returns 0.
SwellCall(x) ==
  /\ CanCall
  /\ last' = [Idle EXCEPT !.op = "swell_call", !.method = SwellNames[x],
                !.args = <<api_tab[x]>>,
                !.ret = IF api_tab[x] = dummyFunc THEN <<0>> ELSE <<>>,
                !.outcome = IF api_tab[x] = NullFunc THEN "abort" ELSE "ok"]
  /\ aborted' = (api_tab[x] = NullFunc)
  /\ UNCHANGED api_tab
  /\ UNCHANGED OutsideSwell

SwellNext ==
  \/ \E p \in Providers \cup {NullProvider} :
       register_swell_function_provider_called_from_rust(p)
  \/ \E x \in DOMAIN SwellNames : SwellCall(x)
  \/ CallerContinues

SwellSpec == Init /\ [][SwellNext]_vars

-----------------------------------------------------------------------------
(* Properties.                                                             *)

\* The last operation was a virtual method invoked by the host on an
\* adapter.
WasVirtual == last.op = "virtual"

\* The last operation was a call of a Rust -> C++ accessor function.
WasAccessor == last.op = "accessor"

\* The call cpp_to_rust_<iface>_<m>(H, args) for the adapter method of the
\* last operation.
SameEntry(call) ==
  /\ call.entry = <<"cpp_to_rust", last.iface, last.method>>
  /\ call.callback_target = last.handle

C2_AccessorCallsSelf ==
  WasAccessor =>
    /\ Len(last.vcalls) = 1
    /\ last.vcalls[1].self = last.self
    /\ last.vcalls[1].method = last.method
    /\ last.vcalls[1].args = last.args
    /\ last.outcome = "ok" => last.ret = last.vcalls[1].result

\* C3: a live adapter's callback_target_ is the handle its constructor was
\* given, whatever happened since, and every call it forwards carries that
\* handle.
C3_HandleNeverReassigned ==
  /\ \A o \in ObjIds :
       IsAdapter(o) => heap[o].callback_target_ = heap[o].ctor_arg
  /\ (last.op \in {"virtual", "accessor"} /\ last.self \in ObjIds) =>
       \A i \in 1..Len(last.fcalls) :
         last.fcalls[i].callback_target = heap[last.self].ctor_arg

\* C3 witness: an adapter over H2 forwards a call after another object was
\* created over H1 and destroyed.
C3_Witness ==
  \E o, p \in ObjIds :
    /\ IsAdapter(o) /\ heap[o].ctor_arg = "H2"
    /\ heap[p].st = "freed"
    /\ WasVirtual /\ last.self = o
    /\ Len(last.fcalls) = 1 /\ last.fcalls[1].callback_target = "H2"


\* A step that is a call of a delete_* function.
DeleteStep == last'.op = "delete" /\ last' # last

\* C4: a delete_* call leaves the set of boxes Rust owns as it was and
\* makes no call across the boundary: the handle of the destroyed object is
\* as valid afterwards as it was before.
C4_DeleteLeavesHandle ==
  [][DeleteStep =>
       /\ boxes' = boxes
       /\ last'.fcalls = <<>>
       /\ last'.vcalls = <<>>]_vars

\* C4 witness: an adapter over a box that Rust still owns was destroyed.
C4_Witness ==
  /\ last.op = "delete"
  /\ last.outcome = "destroyed"
  /\ last.handle \in boxes

\* C5 (as stated): a delete_* call on an object that was destroyed before
\* is a no-op: no error, nothing released again.
C5_SecondDeleteIsNoOp ==
  [][(DeleteStep /\ heap[last'.self].st = "freed") =>
       /\ last'.outcome = "noop"
       /\ aborted' = aborted
       /\ heap' = heap]_vars

\* C5 (amended): a delete_* call on a live object destroys it; the layer
\* keeps no record of what it destroyed, so a delete_* call on an object
\* that was destroyed before runs `delete` on the dangling pointer, which is
\* undefined behaviour: the process aborts or the memory is released again.
C5_DeleteIsUnguarded ==
  [][DeleteStep =>
       IF heap[last'.self].st = "live"
         THEN /\ last'.outcome = "destroyed"
              /\ heap'[last'.self].st = "freed"
              /\ aborted' = aborted
         ELSE /\ last'.outcome \in DoubleDeleteOutcomes
              /\ aborted' = (last'.outcome = "abort")]_vars

\* C5 witness: an object was handed to delete_* a second time and its
\* memory was released again.
C5_Witness ==
  /\ last.op = "delete"
  /\ last.outcome = "double_free"
  /\ heap[last.self].st = "freed"


\* C6 (as stated): a method invoked on an adapter whose handle was already
\* torn down is not forwarded and returns the inert value.
C6_StaleHandleNotForwarded ==
  (WasVirtual /\ last.handle \notin boxes) =>
    /\ last.fcalls = <<>>
    /\ last.ret \in {<<>>, <<0>>}
    /\ last.outcome = "ok"

\* C6 (amended): the adapter does not look at its handle: a method invoked
\* on an adapter whose handle was already torn down is forwarded like any
\* other, with the stale handle, and returns what the entry point returns
\* if that returns at all.
C6_StaleHandleForwarded ==
  (WasVirtual /\ last.handle \notin boxes) =>
    /\ Len(last.fcalls) = 1
    /\ last.fcalls[1].callback_target = last.handle
    /\ last.fcalls[1].entry[3] = last.method
    /\ last.outcome = "ok" => last.ret = last.fcalls[1].result

\* C6 witness: a call on an adapter over a dropped box came back with a
\* value that is not inert.
C6_Witness ==
  /\ WasVirtual
  /\ last.handle \notin boxes
  /\ last.outcome = "ok"
  /\ last.ret = <<1>>

\* The live adapters whose callback_target_ is h.
LiveAdaptersOf(h) ==
  { o \in ObjIds : IsAdapter(o) /\ heap[o].callback_target_ = h }

\* C7 (as stated): at every moment at most one live adapter exists per
\* handle.
C7_OneAdapterPerHandle ==
  \A h \in Handles : Cardinality(LiveAdaptersOf(h)) <= 1

\* A step that is a call of a create_cpp_to_rust_* function.
CreateStep == last'.op = "create" /\ last' # last

\* C7 (amended): a create_cpp_to_rust_* call never refuses a handle: it
\* returns a new object, distinct from every object that exists, bound to
\* the handle it was given, whether or not a live adapter wraps that handle
\* already, and leaves the other objects alone.
C7_CreateAlwaysMakesNewAdapter ==
  [][CreateStep =>
       /\ last'.self \in ObjIds
       /\ last'.ret = <<last'.self>>
       /\ heap[last'.self].st = "unborn"
       /\ heap'[last'.self].st = "live"
       /\ heap'[last'.self].impl = "CppToRust"
       /\ heap'[last'.self].iface = last'.iface
       /\ heap'[last'.self].callback_target_ = last'.handle
       /\ \A o \in ObjIds \ {last'.self} : heap'[o] = heap[o]]_vars

\* C7 witness: a create call has just made a second live adapter over a
\* handle that a live adapter wrapped already.
C7_Witness ==
  /\ last.op = "create"
  /\ Cardinality(LiveAdaptersOf(last.handle)) = 2

\* C8 (as stated): after create over H, the adapter found for H is the one
\* create returned, and after the delete of that adapter none is found
\* for H.
C8_LookupIsExact ==
  /\ last.op = "create" => LiveAdaptersOf(last.handle) = {last.self}
  /\ (last.op = "delete" /\ last.outcome = "destroyed"
        /\ last.handle # NoHandle) => LiveAdaptersOf(last.handle) = {}

\* C8 (amended): the layer has no lookup by handle.  The adapter that a
\* create call over H returned is one of the live adapters over H until it
\* is deleted, and is none of them afterwards; other adapters over H may
\* exist before and remain after.
C8_AdapterBoundUntilDeleted ==
  /\ last.op = "create" => last.self \in LiveAdaptersOf(last.handle)
  /\ \A o \in ObjIds :
       IsAdapter(o) => o \in LiveAdaptersOf(heap[o].ctor_arg)
  /\ (last.op = "delete" /\ last.outcome = "destroyed") =>
       \A h \in Handles : last.self \notin LiveAdaptersOf(h)

\* C8 witness: an adapter over a handle was deleted while another live
\* adapter wraps the same handle.
C8_Witness ==
  /\ last.op = "delete"
  /\ last.outcome = "destroyed"
  /\ last.handle \in Handles
  /\ LiveAdaptersOf(last.handle) # {}


DigitChars == <<"0", "1", "2", "3", "4", "5", "6", "7", "8", "9">>

RECURSIVE Digits(_)
\* The decimal digits of a natural number, as text.
Digits(n) ==
  IF n < 10 THEN <<DigitChars[n + 1]>>
  ELSE Digits(n \div 10) \o <<DigitChars[(n % 10) + 1]>>

\* %d of an integer.
FormatInt(n) == IF n < 0 THEN <<"-">> \o Digits(-n) ELSE Digits(n)

RECURSIVE Expand(_, _)
\* The text a printf-style format stands for with the given arguments:
\* %d takes the next argument as an integer, %s as text, %% is a percent
\* sign, every other character stands for itself.
Expand(fmt, va) ==
  IF fmt = <<>> THEN <<>>
  ELSE IF Head(fmt) = "%" /\ Len(fmt) >= 2
    THEN IF fmt[2] = "d"
           THEN FormatInt(Head(va)) \o Expand(Tail(Tail(fmt)), Tail(va))
         ELSE IF fmt[2] = "s"
           THEN Head(va) \o Expand(Tail(Tail(fmt)), Tail(va))
         ELSE <<fmt[2]>> \o Expand(Tail(Tail(fmt)), va)
    ELSE <<Head(fmt)>> \o Expand(Tail(fmt), va)

\* C9 (as stated; the code departs from it): the line that AddLine(fmt, ...) of the adapter passes to
\* cpp_to_rust_ProjectStateContext_AddLine is the expanded text of the
\* format with its arguments.
C9_AddLineCrossesExpanded ==
  (WasVirtual /\ IsAddLine(last.iface, last.method)) =>
    /\ Len(last.fcalls) = 1
    /\ last.fcalls[1].args = <<Expand(Head(last.args), Tail(last.args))>>

\* The last operation was a completed call of GetLine or
\* GetOutputInfoString, in either direction.
WasTextOut ==
  /\ WasVirtual \/ WasAccessor
  /\ IsTextOut(last.iface, last.method)
  /\ last.outcome = "ok"

\* The bytes written stay within the capacity the caller gave, and a text
\* that does not fit is cut to exactly that capacity.
TruncatedToCapacity ==
  /\ last.written <= last.args[2]
  /\ last.env.required > last.args[2] => last.written = last.args[2]
  /\ last.env.required <= last.args[2] => last.written = last.env.required

-----------------------------------------------------------------------------
\* The last operation was a call of Extended, through an adapter or an
\* accessor, with a call code that its implementation does not handle.
WasUnhandledExtended ==
  /\ last.op \in {"virtual", "accessor"}
  /\ IsExtended(last.method)
  /\ last.args[1] \notin HandledCodes

-----------------------------------------------------------------------------
\* C12: a call of an accessor function on object O leaves every object as
\* it was, O alive, and stores nothing anywhere in the layer; an object
\* stops being alive only in a delete_* call on it.
C12_AccessorBorrowsSelf ==
  [][ /\ (last' # last /\ last'.op = "accessor") =>
            /\ heap' = heap
            /\ heap'[last'.self].st = "live"
            /\ boxes' = boxes
            /\ UNCHANGED OutsideGlue
      /\ \A o \in ObjIds :
            (heap[o].st = "live" /\ heap'[o].st # "live") =>
               (last'.op = "delete" /\ last'.self = o) ]_vars

\* C12 witness: an accessor was called on a pitch shifter of the host,
\* which is alive afterwards.
C12_Witness ==
  /\ WasAccessor
  /\ last.iface = "IReaperPitchShift"
  /\ Len(last.vcalls) = 1
  /\ heap[last.self] = HostObject("IReaperPitchShift")

-----------------------------------------------------------------------------
\* Every method invoked now on adapter o would be forwarded, once, with the
\* handle h.
ForwardsAll(o, h) ==
  /\ IsAdapter(o)
  /\ \A m \in Methods(heap[o].iface) :
       \A args \in ArgsOf(heap[o].iface, m) :
         \A env \in EnvChoices(o, heap[o].iface, m) :
           LET done == VirtualCall(o, heap[o].iface, m, args, env)
           IN  /\ Len(done.fcalls) = 1
               /\ done.fcalls[1].callback_target = h

\* C18: a virtual method invoked on an adapter, CloseNoReset included,
\* makes its one forwarded call and changes nothing else: no object is
\* created or destroyed and no handle binding changes; after CloseNoReset
\* the adapter is alive and every method called on it next is forwarded
\* with the same handle.
C18_MethodHasNoSideEffect ==
  /\ [][ (last' # last /\ last'.op = "virtual") =>
            /\ heap' = heap
            /\ boxes' = boxes
            /\ UNCHANGED OutsideGlue
            /\ Len(last'.fcalls) = 1 ]_vars
  /\ [](WasVirtual => ForwardsAll(last.self, last.handle))

\* C18 witness: CloseNoReset was forwarded by a control surface adapter
\* that is alive afterwards.
C18_Witness ==
  /\ WasVirtual
  /\ last.iface = "IReaperControlSurface"
  /\ last.method = "CloseNoReset"
  /\ Len(last.fcalls) = 1
  /\ IsAdapter(last.self)

-----------------------------------------------------------------------------
\* The methods of the MIDI devices that a plug-in must not call on the
\* devices it gets from GetMidiInput / GetMidiOutput.
ForbiddenMidiCalls ==
  { <<"midi_Input", "SwapBufs">>, <<"midi_Output", "BeginBlock">>,
    <<"midi_Output", "EndBlock">> }

\* C19: no call of an accessor function invokes midi_Input::SwapBufs,
\* midi_Output::BeginBlock or midi_Output::EndBlock: the virtual calls made
\* on a midi_Input are GetReadBuf only, those on a midi_Output Send and
\* SendMsg only.
C19_MidiAccessorsStayInBounds ==
  \A i \in 1..Len(last.vcalls) :
    LET vcall == last.vcalls[i]
    IN  /\ <<vcall.iface, vcall.method>> \notin ForbiddenMidiCalls
        /\ vcall.iface = "midi_Input" => vcall.method = "GetReadBuf"
        /\ vcall.iface = "midi_Output" => vcall.method \in {"Send", "SendMsg"}

\* C19 witness: SendMsg was called on a midi_Output of the host through
\* its accessor.
C19_Witness ==
  /\ WasAccessor
  /\ last.iface = "midi_Output"
  /\ Len(last.vcalls) = 1
  /\ last.vcalls[1].method = "SendMsg"
  /\ heap[last.self] = HostObject("midi_Output")

-----------------------------------------------------------------------------
\* C13: every forwarded call starts and completes between the entry of
\* the method that makes it and that method's return, in the frame of the
\* calling thread: no forwarded call starts after the return, and once a
\* method has returned none of its statements is left to run and no callee
\* of it is running; an adapter method that returned made its one call.
C13_ForwardingIsSynchronous ==
  \A t \in Threads :
    LET f == frames[t]
    IN  /\ ~f.late
        /\ f.returned => (f.todo = <<>> /\ f.callee # "running")
        /\ (f.returned /\ f.kind = "virtual") =>
              (f.calls = 1 /\ f.callee = "returned")

\* C13 witness: an adapter method has returned on the main thread after
\* its one forwarded call, while the audio thread is inside the callee of
\* an accessor.
C13_Witness ==
  /\ frames["main"].kind = "virtual"
  /\ frames["main"].returned
  /\ frames["main"].calls = 1
  /\ frames[AudioThread].kind = "accessor"
  /\ frames[AudioThread].callee = "running"

\* C14: a real-time method, however often it is called, allocates nothing
\* and takes no lock inside the layer: its frame counts no allocation and
\* no lock, and no statement of a body changes the heap.
C14_RealTimeMethodsAreLean ==
  /\ [](\A t \in Threads :
          (t = AudioThread /\ frames[t].kind # "none") =>
             (frames[t].allocs = 0 /\ frames[t].locks = 0))
  /\ [][frames' # frames => heap' = heap]_vars

\* C14 witness: on the audio thread a real-time method of a PCM source
\* adapter has made its forwarded call and is about to return.
C14_Witness ==
  /\ frames[AudioThread].kind = "virtual"
  /\ heap[frames[AudioThread].self] = CppToRustObject("PCM_source", "H1")
  /\ frames[AudioThread].callee = "returned"
  /\ frames[AudioThread].todo = <<"return">>

\* C15 (as stated): whatever the entry point does, no failure of it
\* leaves an adapter method by unwinding into the host's frame.
C15_NoUnwindIntoHost ==
  \A t \in Threads : frames[t].kind = "virtual" => ~frames[t].unwound

\* C15 (amended): an adapter method has no handler of its own: it returns
\* normally exactly when its entry point returned, and a failure that
\* leaves the entry point leaves the adapter method too, by unwinding into
\* the host's frame or by bringing the process down.
C15_FailurePassesThrough ==
  \A t \in Threads :
    LET f == frames[t]
    IN  f.kind = "virtual" =>
          /\ ~f.guarded
          /\ f.returned => f.callee = "returned"
          /\ f.callee = "failed" => (f.unwound \/ aborted)

\* C15 witness: the entry point of an adapter method failed and the
\* failure unwound out of the method.
C15_Witness ==
  \E t \in Threads :
    /\ frames[t].kind = "virtual"
    /\ frames[t].callee = "failed"
    /\ frames[t].unwound
    /\ ~aborted

\* C20: a statement of a method body reads a destroyed object only in a
\* call that the caller did not serialise against the object's teardown
\* (the object was destroyed before the call started or while it was in
\* progress); and no body takes a lock.
C20_SerialisedTeardownIsSafe ==
  \A t \in Threads :
    /\ frames[t].uaf => frames[t].raced
    /\ frames[t].locks = 0

\* C20 witness: both threads are inside the callee of a method of the
\* same live adapter, neither call racing with a teardown.
C20_Witness ==
  /\ frames["main"].kind = "virtual"
  /\ frames[AudioThread].kind = "virtual"
  /\ frames["main"].self = frames[AudioThread].self
  /\ frames["main"].callee = "running"
  /\ frames[AudioThread].callee = "running"
  /\ ~frames["main"].raced
  /\ ~frames[AudioThread].raced
  /\ Live(frames["main"].self)

-----------------------------------------------------------------------------
\* C16: in the single-instance configuration there is at most one
\* control-surface object in the process: every call of the accessor
\* (get_surface, create_control_surface), after any number of earlier
\* calls and whatever its argument, returns the address of the same
\* static and leaves an instance that exists already as it is, and the
\* instance is not destroyed while the process runs.
WasSurfaceAccessor == last.op \in {"get_surface", "create_control_surface"}

-----------------------------------------------------------------------------
\* C17: register_swell_function_provider_called_from_rust called with a
\* non-null provider initialises all SWELL function pointers of api_tab:
\* no pointer is left null, and each entry's pointer is the value the
\* provider returns for that entry's own name whenever that value is not
\* null.
C17_RegisterInitialisesAllPointers ==
  [][ (last' # last /\ last'.op = "register_swell_function_provider"
         /\ last'.args[1] # NullProvider) =>
        \A x \in DOMAIN SwellNames :
          /\ api_tab'[x] # NullFunc
          /\ GetFunc(last'.args[1], SwellNames[x]) # NullFunc
               => api_tab'[x] = GetFunc(last'.args[1], SwellNames[x])
    ]_vars

\* A provider that knows every name of the table but the first has been
\* registered.
C17_Witness ==
  /\ last.op = "register_swell_function_provider"
  /\ last.args[1].lib = "libSwell_custom"
  /\ last.args[1].missing = {SwellNames[1]}
  /\ api_tab[1] = dummyFunc
  /\ \A x \in 2..Len(SwellNames) :
       api_tab[x] = [lib |-> "libSwell_custom", name |-> SwellNames[x]]

-----------------------------------------------------------------------------
\* The entry point has just run with a provider that is not null.
RegisterStep ==
  /\ last' # last
  /\ last'.op = "register_swell_function_provider"
  /\ last'.args[1] # NullProvider

\* No function pointer of api_tab is null.
AllPointersSet == \A x \in DOMAIN SwellNames : api_tab[x] # NullFunc

\* C21: after register_swell_function_provider_called_from_rust has run
\* with a non-null provider no function pointer of api_tab is null, then
\* or at any later time: every entry whose name the provider did not
\* resolve points to dummyFunc, and a SWELL function called afterwards is
\* never called through a null pointer (a call that lands in dummyFunc
\* returns 0).
C21_NoNullPointerAfterRegister ==
  /\ [][ RegisterStep =>
           /\ AllPointersSet'
           /\ \A x \in DOMAIN SwellNames :
                GetFunc(last'.args[1], SwellNames[x]) = NullFunc
                  => api_tab'[x] = dummyFunc ]_vars
  /\ [][ AllPointersSet => AllPointersSet' ]_vars
  /\ [][ (AllPointersSet /\ last' # last /\ last'.op = "swell_call") =>
           /\ last'.args[1] # NullFunc
           /\ last'.outcome = "ok"
           /\ ~aborted'
           /\ last'.args[1] = dummyFunc => last'.ret = <<0>> ]_vars

\* A SWELL function whose name the provider did not know has been called
\* after the registration and has returned 0.
C21_Witness ==
  /\ last.op = "swell_call"
  /\ last.method = SwellNames[2]
  /\ last.args = <<dummyFunc>>
  /\ last.ret = <<0>>
  /\ ~aborted
  /\ AllPointersSet

\* C22: register_swell_function_provider_called_from_rust called with a
\* null provider changes nothing: every function pointer of api_tab keeps
\* the value it had before the call, neither doinit nor the provider is
\* called, and nothing else in the process changes.
C22_NullProviderChangesNothing ==
  [][ (last' # last /\ last'.op = "register_swell_function_provider"
         /\ last'.args[1] = NullProvider) =>
        /\ api_tab' = api_tab
        /\ last'.fcalls = <<>>
        /\ last'.vcalls = <<>>
        /\ aborted' = aborted
        /\ UNCHANGED OutsideSwell ]_vars

\* The entry point has been called with a null provider after the
\* pointers had been set from a provider that knows every name but one.
C22_Witness ==
  /\ last.op = "register_swell_function_provider"
  /\ last.args = <<NullProvider>>
  /\ api_tab[1] = [lib |-> "libSwell", name |-> SwellNames[1]]
  /\ api_tab[2] = dummyFunc
  /\ last.fcalls = <<>>

\* C26: doinit asks the provider exactly once for each entry of api_tab,
\* in the order of the table, and returns the number of entries for which
\* the provider returned null; it returns 0 exactly when the provider
\* resolved every name.
C26_DoinitCountsUnresolved ==
  [][ RegisterStep =>
        LET asked == last'.fcalls
            errcnt == last'.vcalls[1].result
            unresolved == { x \in DOMAIN SwellNames :
                              GetFunc(last'.args[1], SwellNames[x]) = NullFunc }
        IN  /\ Len(last'.vcalls) = 1
            /\ Len(asked) = Len(SwellNames)
            /\ \A x \in DOMAIN SwellNames :
                 /\ asked[x].args = <<SwellNames[x]>>
                 /\ asked[x].result = GetFunc(last'.args[1], SwellNames[x])
            /\ errcnt = Cardinality(unresolved)
            /\ (errcnt = 0) <=> (unresolved = {}) ]_vars

\* doinit has run over a provider that does not know two of the names.
C26_Witness ==
  /\ last.op = "register_swell_function_provider"
  /\ last.args[1] # NullProvider
  /\ last.args[1].missing = {SwellNames[1], SwellNames[3]}
  /\ Len(last.fcalls) = Len(SwellNames)
  /\ last.vcalls = <<DoinitCall(2)>>

-----------------------------------------------------------------------------
\* A step that is a call of create_control_surface.
CreateControlSurfaceStep ==
  last' # last /\ last'.op = "create_control_surface"

\* C23: the singleton of create_control_surface(callback_target) is bound
\* to the handle of the first call only: the first call stores its
\* argument, a later call returns the same object and leaves the stored
\* handle as it is whatever handle it is given, and every method invoked
\* on the object hands the stored handle, and so the first call's, to the
\* function it forwards to.
C23_BoundToFirstHandle ==
  /\ [][ CreateControlSurfaceStep =>
           /\ last'.ret = <<AddressOf("CONTROL_SURFACE")>>
           /\ statics'.CONTROL_SURFACE.constructed
           /\ statics'.CONTROL_SURFACE.callback_target_ =
                IF statics.CONTROL_SURFACE.constructed
                  THEN statics.CONTROL_SURFACE.callback_target_
                  ELSE last'.handle ]_vars
  /\ [][ (statics.CONTROL_SURFACE.constructed /\
          statics'.CONTROL_SURFACE.constructed) =>
           statics'.CONTROL_SURFACE.callback_target_ =
             statics.CONTROL_SURFACE.callback_target_ ]_vars
  /\ []((last.op = "static_virtual" /\ statics.unit = "control_surface.cpp"
           /\ ~aborted) =>
          /\ Len(last.fcalls) = 1
          /\ last.fcalls[1].args =
               <<statics.CONTROL_SURFACE.callback_target_>> \o last.args)

\* The accessor was called first with H2 and now with H1: it has returned
\* the object, which is still bound to H2.
C23_Witness ==
  /\ last.op = "create_control_surface"
  /\ last.handle = "H1"
  /\ last.ret = <<AddressOf("CONTROL_SURFACE")>>
  /\ statics.CONTROL_SURFACE.constructed
  /\ statics.CONTROL_SURFACE.callback_target_ = "H2"

\* The interfaces that have both accessor functions and an adapter class.
BothWays == {"PCM_source", "PCM_sink", "ProjectStateContext"}

\* An accessor function was called on an adapter object.
WasAccessorOnAdapter ==
  /\ WasAccessor
  /\ last.iface \in BothWays
  /\ heap[last.self].impl = "CppToRust"

\* C24: inbound and outbound forwarding compose to the identity: for
\* PCM_source, PCM_sink and ProjectStateContext and every method M other
\* than AddLine, the accessor rust_to_cpp_<I>_<M> called with arguments A
\* on the object that create_cpp_to_rust_<i>(H) returned makes exactly one
\* call cpp_to_rust_<I>_<M>(H, A) and returns the result of that call.
C24_RoundTripIsIdentity ==
  (WasAccessorOnAdapter /\ ~IsAddLine(last.iface, last.method)) =>
    /\ Len(last.vcalls) = 1
    /\ Len(last.fcalls) = 1
    /\ last.fcalls[1].entry = <<"cpp_to_rust", last.iface, last.method>>
    /\ last.fcalls[1].callback_target = heap[last.self].ctor_arg
    /\ last.fcalls[1].args = last.args
    /\ last.outcome = "ok" => last.ret = last.fcalls[1].result

\* rust_to_cpp_PCM_source_LoadState was called on an adapter created over
\* H2 and has returned 1, the value the entry point returned.
C24_Witness ==
  /\ WasAccessorOnAdapter
  /\ last.iface = "PCM_source"
  /\ last.method = "LoadState"
  /\ last.args = <<20, 21>>
  /\ heap[last.self].ctor_arg = "H2"
  /\ last.fcalls[1].callback_target = "H2"
  /\ last.ret = <<1>>

\* C25: destroying one live object with a delete_* function leaves every
\* other object as it was, those that wrap the same handle included: each
\* stays alive and keeps its handle, and a method called on it later is
\* still forwarded to its own handle.
C25_DeleteLeavesOthers ==
  /\ [][ (DeleteStep /\ last'.outcome = "destroyed") =>
           /\ \A p \in ObjIds \ {last'.self} : heap'[p] = heap[p]
           /\ heap'[last'.self].st = "freed" ]_vars
  /\ []((WasVirtual /\ ~aborted) =>
          /\ IsAdapter(last.self)
          /\ Len(last.fcalls) = 1
          /\ last.fcalls[1].callback_target = heap[last.self].callback_target_
          /\ last.fcalls[1].callback_target = last.handle)

\* Two adapters wrapped H1 and one of them has just been destroyed: the
\* other is alive and still bound to H1.
C25_Witness ==
  /\ last.op = "delete"
  /\ last.outcome = "destroyed"
  /\ last.handle = "H1"
  /\ \E p \in ObjIds \ {last.self} :
       IsAdapter(p) /\ heap[p].callback_target_ = "H1"

=============================================================================
